---- MODULE Spec2Model ----
(***************************************************************************)
(* Model of the video re-dubbing pipeline of src/app.py: the per-segment   *)
(* translate / synthesize / duration-adjust loop                           *)
(* (translate_and_generate_audio), the track assembly                      *)
(* (combine_translated_audio_segments), the remux step and the sequencing  *)
(* done by main.                                                           *)
(*                                                                         *)
(* Times of transcript segments are floating-point seconds in the source.  *)
(* Here a time is an integer number of ticks, SubMs ticks per millisecond, *)
(* so that `x * 1000` is a possibly fractional number of milliseconds and  *)
(* int(...) truncates it.  Clip lengths (len(AudioSegment)) are whole      *)
(* milliseconds.  Texts are sequences of one-character strings.            *)
(***************************************************************************)
EXTENDS Integers, Sequences, FiniteSets

VARIABLES pc, segments, original_duration, audio_segments, i, phase, attempt,
          text_to_translate, translated_text, last, match,
          translated_audio_segments, translateCalled, synthCalled, failed,
          paused, combined_audio, k, reported, remux, offered, full_audio,
          segment_files

vars == <<pc, segments, original_duration, audio_segments, i, phase, attempt,
          text_to_translate, translated_text, last, match,
          translated_audio_segments, translateCalled, synthCalled, failed,
          paused, combined_audio, k, reported, remux, offered, full_audio,
          segment_files>>

tgVars == <<i, phase, attempt, text_to_translate, translated_text, last,
            match, translated_audio_segments, translateCalled, synthCalled,
            failed, paused>>

mainVars == <<segments, original_duration, reported, remux, offered,
              full_audio, segment_files>>

asmVars == <<combined_audio, k>>

----------------------------------------------------------------------------
(* Bounds of the model *)

SubMs == 2

MaxSegs == 3

MaxClipMs == 7

(* Program constants *)

max_retries == 3

RateLimitEvery == 3

----------------------------------------------------------------------------
(* Arithmetic helpers *)

Min(a, b) == IF a <= b THEN a ELSE b

Max(a, b) == IF a >= b THEN a ELSE b

\* int(x * 1000) for a time x >= 0 held in ticks: truncation to whole ms
ToMs(t) == t \div SubMs

\* rationals are pairs <<numerator, denominator>> with positive denominator
RLeq(p, q) == p[1] * q[2] <= q[1] * p[2]

REq(p, q) == p[1] * q[2] = q[1] * p[2]

RMin(p, q) == IF RLeq(p, q) THEN p ELSE q

RInv(p) == <<p[2], p[1]>>

----------------------------------------------------------------------------
(* Texts *)

Whitespace == {" "}

RECURSIVE lstrip(_)
lstrip(s) ==
    IF s # <<>> /\ Head(s) \in Whitespace THEN lstrip(Tail(s)) ELSE s

RECURSIVE rstrip(_)
rstrip(s) ==
    IF s # <<>> /\ s[Len(s)] \in Whitespace
    THEN rstrip(SubSeq(s, 1, Len(s) - 1))
    ELSE s

strip(s) == rstrip(lstrip(s))

\* the test with the length bound off by one
TooShortEmptyOnly(t) == t = <<>> \/ Len(t) < 1

\* line 169: not text_to_translate or len(text_to_translate) < 2
TooShort(t) == t = <<>> \/ Len(t) < 2

NoMatch == [band |-> "idle"]

NotCalled == [kind |-> "none"]

NoRemux == [exit |-> -1, exists |-> FALSE]

----------------------------------------------------------------------------
(* translate_and_generate_audio, lines 163-243 *)

\* lines 163-170: a segment whose stripped text is too short is skipped
SkipShort ==
    /\ pc = "Translating" /\ phase = "top" /\ i < Len(audio_segments)
    /\ TooShort(strip(audio_segments[i + 1].text))
    /\ i' = i + 1
    /\ match' = NoMatch
    /\ last' = NotCalled
    /\ text_to_translate' = strip(audio_segments[i + 1].text)
    /\ UNCHANGED <<pc, phase, attempt, translated_text,
                   translated_audio_segments, translateCalled, synthCalled,
                   failed, paused, audio_segments>>
    /\ UNCHANGED mainVars /\ UNCHANGED asmVars

\* lines 163-174: otherwise the retry loop is entered with the source text
BeginTranslate ==
    /\ pc = "Translating" /\ phase = "top" /\ i < Len(audio_segments)
    /\ ~TooShort(strip(audio_segments[i + 1].text))
    /\ text_to_translate' = strip(audio_segments[i + 1].text)
    /\ translated_text' = strip(audio_segments[i + 1].text)
    /\ attempt' = 0
    /\ phase' = "retry"
    /\ match' = NoMatch
    /\ last' = NotCalled
    /\ UNCHANGED <<pc, i, translated_audio_segments, translateCalled,
                   synthCalled, failed, paused, audio_segments>>
    /\ UNCHANGED mainVars /\ UNCHANGED asmVars

\* what one translator.translate call can do: raise, or return a string
Raised == [kind |-> "raise"]

Returned(v) == [kind |-> "return", value |-> v]

TranslatorOutputs(t) == {<<>>, t, <<"x", "y">>}

\* line 182
Accepted(v, t) == v # <<>> /\ v # t

\* the handler without the fallback to the source text
AfterFailureKeep(v) ==
    /\ translated_text' = v
    /\ attempt' = attempt + 1
    /\ phase' = IF attempt < max_retries - 1 THEN "retry" ELSE "tts"

\* lines 187-192: the handler of a failed attempt
AfterFailure(v) ==
    IF attempt < max_retries - 1
    THEN /\ translated_text' = v
         /\ attempt' = attempt + 1
         /\ phase' = "retry"
    ELSE /\ translated_text' = text_to_translate
         /\ attempt' = attempt + 1
         /\ phase' = "tts"

\* lines 176-192: one pass of the retry loop
TranslateAttempt ==
    /\ pc = "Translating" /\ phase = "retry" /\ attempt < max_retries
    /\ translateCalled' = translateCalled \cup {i}
    /\ \/ /\ last' = Raised
          /\ AfterFailure(translated_text)
       \/ \E v \in TranslatorOutputs(text_to_translate) :
            /\ last' = Returned(v)
            /\ IF Accepted(v, text_to_translate)
               THEN /\ translated_text' = v
                    /\ attempt' = attempt + 1
                    /\ phase' = "tts"
               ELSE AfterFailure(v)
    /\ UNCHANGED <<pc, i, text_to_translate, match,
                   translated_audio_segments, synthCalled, failed, paused,
                   audio_segments>>
    /\ UNCHANGED mainVars /\ UNCHANGED asmVars

\* line 205, in ticks
TargetDuration(seg) == seg.end - seg.start

\* the bands with the comparisons made inclusive
BandInclusive(current, target) ==
    IF current * SubMs * 10 >= target * 12 THEN "over"
    ELSE IF current * SubMs * 10 <= target * 8 THEN "under"
    ELSE "none"

\* lines 208, 211: which branch of the speed correction is taken
Band(current, target) ==
    IF current * SubMs * 10 > target * 12 THEN "over"
    ELSE IF current * SubMs * 10 < target * 8 THEN "under"
    ELSE "none"

\* the under-length factor without the inversion
PlaybackSpeedDirect(band, current, target) ==
    IF band = "over"
    THEN <<current * SubMs, target>>
    ELSE RMin(<<target, current * SubMs>>, <<13, 10>>)

\* line 209 and lines 212-213: the playback_speed handed to speedup
PlaybackSpeed(band, current, target) ==
    IF band = "over"
    THEN <<current * SubMs, target>>
    ELSE RInv(RMin(<<target, current * SubMs>>, <<13, 10>>))

\* the exact fit without the padding branch
ExactFitTrimOnly(n, target) ==
    IF n * SubMs > target THEN Min(n, ToMs(target)) ELSE n

\* lines 216-221: trim or pad a clip of n ms to the target
ExactFit(n, target) ==
    IF n * SubMs > target THEN Min(n, ToMs(target))
    ELSE IF n * SubMs < target THEN n + ToMs(target - n * SubMs)
    ELSE n

\* lines 216, 218: which branch of the exact fit is taken
FitKind(n, target) ==
    IF n * SubMs > target THEN "trim"
    ELSE IF n * SubMs < target THEN "pad"
    ELSE "same"

\* result of AudioSegment.speedup: a clip of some new length, or 0 when it
\* raises (a clip too short to be chunked)
SpeedupResults == 0 .. MaxClipMs

\* lines 225-231
Entry(seg, n) ==
    [file |-> n, start |-> seg.start, end |-> seg.end,
     translated_text |-> translated_text, index |-> i]

\* lines 239-241
RateLimit(idx) ==
    IF (idx + 1) % RateLimitEvery = 0 THEN paused \cup {idx} ELSE paused

\* the failure of one segment left uncaught
SpeechFailedEscapes(m) ==
    /\ match' = m
    /\ failed' = failed \cup {i}
    /\ pc' = "Failed"
    /\ UNCHANGED <<translated_audio_segments, paused>>

\* lines 235-237: the except branch, which continues with the next segment
SpeechFailed(m) ==
    /\ match' = m
    /\ failed' = failed \cup {i}
    /\ UNCHANGED <<translated_audio_segments, paused, pc>>

\* lines 223-233 and 239-241
SpeechStored(m, n) ==
    /\ match' = [m EXCEPT !.fit = FitKind(n, m.target),
                          !.final = ExactFit(n, m.target)]
    /\ translated_audio_segments' =
           Append(translated_audio_segments, Entry(audio_segments[i + 1], ExactFit(n, m.target)))
    /\ paused' = RateLimit(i)
    /\ UNCHANGED <<failed, pc>>

\* lines 194-241: synthesis, duration adjustment, export, rate limiting
GenerateSpeech ==
    /\ pc = "Translating" /\ phase = "tts"
    /\ synthCalled' = synthCalled \cup {i}
    /\ i' = i + 1
    /\ phase' = "top"
    /\ last' = NotCalled
    /\ \/ SpeechFailed([band |-> "tts_error"])
       \/ \E current \in 1 .. MaxClipMs :
            LET target == TargetDuration(audio_segments[i + 1])
                band   == Band(current, target)
                m0     == [band |-> band, current |-> current,
                           target |-> target, called |-> FALSE,
                           speed |-> <<1, 1>>, fit |-> "raised", final |-> 0]
            IN  IF band = "none"
                THEN SpeechStored(m0, current)
                ELSE IF band = "over" /\ target = 0
                THEN SpeechFailed(m0)
                ELSE \E r \in SpeedupResults :
                       LET m1 == [m0 EXCEPT
                                    !.called = TRUE,
                                    !.speed = PlaybackSpeed(band, current,
                                                            target)]
                       IN  IF r = 0
                           THEN SpeechFailed(m1)
                           ELSE SpeechStored(m1, r)
    /\ UNCHANGED <<attempt, text_to_translate, translated_text,
                   translateCalled, audio_segments>>
    /\ UNCHANGED mainVars /\ UNCHANGED asmVars

\* the return placed inside the loop, after the first segment
ReturnSegmentsEarly ==
    /\ pc = "Translating" /\ phase = "top"
    /\ i = Len(audio_segments) \/ i >= 1
    /\ pc' = "Translated"
    /\ UNCHANGED tgVars /\ UNCHANGED audio_segments
    /\ UNCHANGED mainVars /\ UNCHANGED asmVars

\* line 243
ReturnSegments ==
    /\ pc = "Translating" /\ phase = "top" /\ i = Len(audio_segments)
    /\ pc' = "Translated"
    /\ UNCHANGED tgVars /\ UNCHANGED audio_segments
    /\ UNCHANGED mainVars /\ UNCHANGED asmVars

----------------------------------------------------------------------------
(* Inputs of translate_and_generate_audio taken on its own: every list of  *)
(* at most MaxSegs segments drawn from TGSegments, indexed as              *)
(* extract_audio_segments indexes them (lines 119-125).                    *)

TGSegments ==
    { [start |-> 0,         end |-> 5 * SubMs,     text |-> <<"h", "i", " ">>],
      [start |-> SubMs,     end |-> 10 * SubMs,    text |-> <<" ", "h", "i">>],
      [start |-> 1,         end |-> 2 * SubMs,     text |-> <<"o", "k">>],
      [start |-> 0,         end |-> SubMs,         text |-> <<" ", "a", " ">>],
      [start |-> SubMs,     end |-> 3 * SubMs,     text |-> <<" ">>] }

Lists(S) == UNION { [1 .. n -> S] : n \in 0 .. MaxSegs }

\* lines 110-125: the list handed on carries each segment with its position
Indexed(segs) ==
    [j \in 1 .. Len(segs) |->
        [start |-> segs[j].start, end |-> segs[j].end,
         text |-> segs[j].text, index |-> j - 1]]

TGIdle ==
    /\ i = 0 /\ phase = "top" /\ attempt = 0
    /\ text_to_translate = <<>> /\ translated_text = <<>>
    /\ last = NotCalled /\ match = NoMatch
    /\ translated_audio_segments = <<>>
    /\ translateCalled = {} /\ synthCalled = {} /\ failed = {}
    /\ paused = {}

MainIdle ==
    /\ segments = <<>> /\ original_duration = 0
    /\ full_audio = -1 /\ segment_files = <<>>
    /\ reported = "none" /\ remux = NoRemux /\ offered = FALSE

AsmIdle == combined_audio = <<>> /\ k = -1

InitTG ==
    /\ pc = "Translating"
    /\ audio_segments \in { Indexed(l) : l \in Lists(TGSegments) }
    /\ TGIdle /\ MainIdle /\ AsmIdle

NextTG ==
    \/ SkipShort
    \/ BeginTranslate
    \/ TranslateAttempt
    \/ GenerateSpeech
    \/ ReturnSegments

SpecTG == InitTG /\ [][NextTG]_vars

----------------------------------------------------------------------------
(* combine_translated_audio_segments, lines 245-258.  A sample of the      *)
(* track is the list of the segment indexes whose clips were mixed into    *)
(* that millisecond; silence is the empty list.                            *)

\* python s[a:b] for 0 <= a, 0 <= b
Slice(s, a, b) == SubSeq(s, Min(a, Len(s)) + 1, Min(b, Len(s)))

\* AudioSegment.silent(duration=n)
Silent(n) == [m \in 1 .. n |-> <<>>]

\* AudioSegment.from_wav(segment['file']): the clip exported for the segment
Clip(seg) == [m \in 1 .. seg.file |-> <<seg.index>>]

\* an overlay that does not cut the clip at the end of the track
overlayUncut(track, clip, position) ==
    LET head == Slice(track, 0, position)
        seg1 == Slice(track, position, Len(track))
        mixed == [m \in 1 .. Len(clip) |->
                    IF m <= Len(seg1) THEN seg1[m] \o clip[m] ELSE clip[m]]
        tail == Slice(seg1, Len(clip), Len(seg1))
    IN  head \o mixed \o tail

\* AudioSegment.overlay(seg, position): the part of the track before the
\* position, the overlaid part cut to what remains of the track, the rest
overlay(track, clip, position) ==
    LET head      == Slice(track, 0, position)
        seg1      == Slice(track, position, Len(track))
        remaining == Max(0, Len(seg1))
        seg2      == IF Len(clip) >= remaining
                     THEN Slice(clip, 0, remaining) ELSE clip
        mixed     == [m \in 1 .. Len(seg2) |-> seg1[m] \o seg2[m]]
        tail      == Slice(seg1, Len(seg2), Len(seg1))
    IN  head \o mixed \o tail

\* the position taken without the conversion to milliseconds
PositionRaw(seg) == seg.start

\* line 251
Position(seg) == ToMs(seg.start)

\* lines 247-248
CombineInit ==
    /\ pc = "Assembling" /\ k = -1
    /\ combined_audio' = Silent(ToMs(original_duration))
    /\ k' = 0
    /\ UNCHANGED <<pc, audio_segments>>
    /\ UNCHANGED tgVars /\ UNCHANGED mainVars

\* lines 250-253: one pass of the overlay loop
Overlay ==
    /\ pc = "Assembling" /\ k >= 0 /\ k < Len(translated_audio_segments)
    /\ LET seg == translated_audio_segments[k + 1]
       IN  combined_audio' =
               overlay(combined_audio, Clip(seg), Position(seg))
    /\ k' = k + 1
    /\ UNCHANGED <<pc, audio_segments>>
    /\ UNCHANGED tgVars /\ UNCHANGED mainVars

\* lines 488-490: the handler of main for any exception of a step
Except ==
    /\ pc' = "Failed"
    /\ reported' = "exception"

\* lines 255-258: the track is exported and handed to the remux step
CombineExport ==
    /\ pc = "Assembling" /\ k = Len(translated_audio_segments)
    /\ \/ pc' = "Remuxing" /\ UNCHANGED reported
       \/ Except
    /\ UNCHANGED <<audio_segments, segments, original_duration, full_audio,
                   segment_files, remux,
                   offered>>
    /\ UNCHANGED tgVars /\ UNCHANGED asmVars

\* the arguments of combine_translated_audio_segments taken on its own
AsmSegments ==
    { [file |-> 2, start |-> SubMs,     end |-> 3 * SubMs, index |-> 0,
       translated_text |-> <<"x", "y">>],
      [file |-> 2, start |-> 2 * SubMs, end |-> 4 * SubMs, index |-> 1,
       translated_text |-> <<"x", "y">>],
      [file |-> 3, start |-> 4 * SubMs, end |-> 7 * SubMs, index |-> 2,
       translated_text |-> <<"o", "k">>],
      [file |-> 1, start |-> 6 * SubMs, end |-> 7 * SubMs, index |-> 3,
       translated_text |-> <<"o", "k">>] }

Durations == {5 * SubMs + 1}

InitAsm ==
    /\ pc = "Assembling"
    /\ translated_audio_segments \in Lists(AsmSegments)
    /\ original_duration \in Durations
    /\ audio_segments = <<>>
    /\ i = 0 /\ phase = "top" /\ attempt = 0
    /\ text_to_translate = <<>> /\ translated_text = <<>>
    /\ last = NotCalled /\ match = NoMatch
    /\ translateCalled = {} /\ synthCalled = {} /\ failed = {}
    /\ paused = {}
    /\ segments = <<>>
    /\ full_audio = -1 /\ segment_files = <<>>
    /\ reported = "none" /\ remux = NoRemux /\ offered = FALSE
    /\ combined_audio = <<>> /\ k = -1

NextAsm ==
    \/ CombineInit
    \/ Overlay
    \/ CombineExport

SpecAsm == InitAsm /\ [][NextAsm]_vars

----------------------------------------------------------------------------
(* main, lines 383-490: one run started by the button *)

\* the transcript segments the speech-to-text engine can return: every
\* selection of at most MaxSegs entries of Pool, in temporal order
Pool ==
    << [start |-> 0,             end |-> SubMs,     text |-> <<" ", "a">>],
       [start |-> SubMs,         end |-> 3 * SubMs, text |-> <<"h", "i">>],
       [start |-> SubMs + 1,     end |-> 3 * SubMs, text |-> <<" ", "o", "k">>],
       [start |-> 2 * SubMs,     end |-> 2 * SubMs, text |-> <<"n", "o">>],
       [start |-> 4 * SubMs,     end |-> 7 * SubMs, text |-> <<"h", "i">>],
       [start |-> 6 * SubMs,     end |-> 7 * SubMs, text |-> <<"h", "i">>] >>

RECURSIVE Select(_, _)
Select(pool, keep) ==
    IF pool = <<>> THEN <<>>
    ELSE IF Len(pool) \in keep
    THEN Append(Select(SubSeq(pool, 1, Len(pool) - 1), keep), pool[Len(pool)])
    ELSE Select(SubSeq(pool, 1, Len(pool) - 1), keep)

Transcripts ==
    { Select(Pool, keep) :
        keep \in { c \in SUBSET (1 .. Len(Pool)) : Cardinality(c) <= MaxSegs } }

\* lines 383-394
Start ==
    /\ pc = "Idle"
    /\ pc' = "Transcribing"
    /\ UNCHANGED <<audio_segments, segments, original_duration, full_audio,
                   segment_files, reported, remux, offered>>
    /\ UNCHANGED tgVars /\ UNCHANGED asmVars

\* lines 396-412: speech-to-text and the probe of the duration
Transcribe ==
    /\ pc = "Transcribing"
    /\ \/ /\ segments' \in Transcripts
          /\ original_duration' \in Durations
          /\ pc' = "Extracting"
          /\ UNCHANGED reported
       \/ Except /\ UNCHANGED <<segments, original_duration>>
    /\ UNCHANGED <<audio_segments, full_audio, segment_files, remux, offered>>
    /\ UNCHANGED tgVars /\ UNCHANGED asmVars

\* lines 102-107: the audio track of the video, as long as the video
SourceLength == ToMs(original_duration)

\* lines 111-117: the length of the slice full_audio[start_ms:end_ms]
SegmentFile(seg, length) ==
    Len(Slice(Silent(length), ToMs(seg.start), ToMs(seg.end)))

\* lines 414-416 and 99-127: the audio is sliced for every segment and
\* every segment is passed on, with its index and its own start and end
extract_audio_segments ==
    /\ pc = "Extracting"
    /\ \/ /\ full_audio' = SourceLength
          /\ segment_files' =
                 [j \in 1 .. Len(segments) |->
                     SegmentFile(segments[j], SourceLength)]
          /\ audio_segments' = Indexed(segments)
          /\ pc' = "Translating"
          /\ UNCHANGED reported
       \/ Except /\ UNCHANGED <<audio_segments, full_audio, segment_files>>
    /\ UNCHANGED <<segments, original_duration, remux, offered>>
    /\ UNCHANGED tgVars /\ UNCHANGED asmVars

\* the step without the test of line 426
CheckTranslatedAlways ==
    /\ pc = "Translated"
    /\ pc' = "Assembling"
    /\ UNCHANGED <<audio_segments, segments, original_duration, full_audio,
                   segment_files, remux,
                   offered, reported>>
    /\ UNCHANGED tgVars /\ UNCHANGED asmVars

\* lines 426 and 485-486
CheckTranslated ==
    /\ pc = "Translated"
    /\ IF translated_audio_segments # <<>>
       THEN pc' = "Assembling" /\ UNCHANGED reported
       ELSE pc' = "Failed" /\ reported' = "no_segments"
    /\ UNCHANGED <<audio_segments, segments, original_duration, full_audio,
                   segment_files, remux,
                   offered>>
    /\ UNCHANGED tgVars /\ UNCHANGED asmVars

\* lines 260-280: what the run of the remux tool can give
RemuxResults == [exit : {0, 1}, exists : BOOLEAN]

\* lines 433-484
create_video_with_translated_audio ==
    /\ pc = "Remuxing"
    /\ \E r \in RemuxResults :
         /\ remux' = r
         /\ IF r.exit = 0 /\ r.exists
            THEN pc' = "Done" /\ offered' = TRUE /\ UNCHANGED reported
            ELSE pc' = "Failed" /\ reported' = "video_failed"
                 /\ UNCHANGED offered
    /\ UNCHANGED <<audio_segments, segments, original_duration, full_audio,
                   segment_files>>
    /\ UNCHANGED tgVars /\ UNCHANGED asmVars

Init ==
    /\ pc = "Idle"
    /\ audio_segments = <<>>
    /\ TGIdle /\ MainIdle
    /\ combined_audio = <<>> /\ k = -1

Next ==
    \/ Start
    \/ Transcribe
    \/ extract_audio_segments
    \/ SkipShort
    \/ BeginTranslate
    \/ TranslateAttempt
    \/ GenerateSpeech
    \/ ReturnSegments
    \/ CheckTranslated
    \/ CombineInit
    \/ Overlay
    \/ CombineExport
    \/ create_video_with_translated_audio

Spec == Init /\ [][Next]_vars

----------------------------------------------------------------------------
(* Properties *)

\* the duration adjustment ran on a clip (it may have ended in an error)
Matched == match.band \in {"over", "under", "none"}

\* the adjusted clip was stored for the segment
Stored == Matched /\ match.fit # "raised"

\* n is the duration t (in ticks) in whole milliseconds
WholeMs(n, t) == n * SubMs <= t /\ t < (n + 1) * SubMs

\* C1: every clip stored for a segment with target duration T > 0 lasts
\* exactly T in whole milliseconds, whichever band its ratio fell in and
\* whatever length the speed change returned.
Thm_C1_ExactDuration ==
    /\ \A n \in 1 .. Len(translated_audio_segments) :
         LET e == translated_audio_segments[n]
         IN  e.end - e.start > 0 => WholeMs(e.file, e.end - e.start)
    /\ (Stored /\ match.target > 0) => WholeMs(match.final, match.target)

Wit_C1_TrimFractional ==
    /\ Stored /\ match.band = "over" /\ match.fit = "trim"
    /\ match.target % SubMs # 0
    /\ translated_audio_segments # <<>>
    /\ translated_audio_segments[Len(translated_audio_segments)].file
         = match.final

\* r = current / T < 0.8, with T in ticks
UnderLength == Matched /\ match.current * SubMs * 10 < match.target * 8

\* r = current / T > 1.2
OverLength ==
    /\ Matched /\ match.target > 0
    /\ match.current * SubMs * 10 > match.target * 12

\* 0.8 <= r <= 1.2
InBand ==
    /\ Matched /\ match.target > 0
    /\ match.current * SubMs * 10 >= match.target * 8
    /\ match.current * SubMs * 10 <= match.target * 12

Thm_C3_OtherBands ==
    /\ OverLength =>
         /\ match.called
         /\ REq(match.speed, <<match.current * SubMs, match.target>>)
    /\ InBand => ~match.called /\ match.band = "none"

Wit_C3_UpperBoundary ==
    /\ Stored /\ InBand /\ ~match.called
    /\ match.current * SubMs * 10 = match.target * 12

\* the last translate call returned a string that was accepted
LastAccepted == last.kind = "return" /\ Accepted(last.value, text_to_translate)

\* C4: at most 3 translate calls per segment, none after an accepted
\* result; the text handed to synthesis is the accepted result (the third
\* attempt's when the first two failed), or the source text when all 3
\* attempts failed; no exception leaves the loop.
Thm_C4_Retry ==
    /\ [](attempt <= 3)
    /\ [][attempt' = attempt + 1 => ~LastAccepted /\ attempt < 3]_vars
    /\ [](phase = "tts" =>
            IF LastAccepted
            THEN translated_text = last.value
            ELSE attempt = 3 /\ translated_text = text_to_translate)
    /\ [](pc \in {"Translating", "Translated"})

Wit_C4_ThirdAttempt ==
    /\ phase = "tts" /\ attempt = 3 /\ LastAccepted
    /\ translated_text = <<"x", "y">>

\* the text has fewer than 2 characters once the whitespace around it is
\* removed
Trivial(seg) == Len(strip(seg.text)) < 2

Indexes == { translated_audio_segments[n].index :
               n \in 1 .. Len(translated_audio_segments) }

\* C5: a segment whose stripped text has fewer than 2 characters gets no
\* translate call, no synthesis call and no entry in the returned list.
Thm_C5_ShortSkipped ==
    \A j \in 0 .. Len(audio_segments) - 1 :
        Trivial(audio_segments[j + 1]) =>
            /\ j \notin translateCalled
            /\ j \notin synthCalled
            /\ j \notin Indexes

Wit_C5_SkippedAmongOthers ==
    /\ pc = "Translated"
    /\ \E j \in 0 .. Len(audio_segments) - 1 :
         /\ Trivial(audio_segments[j + 1])
         /\ strip(audio_segments[j + 1].text) # <<>>
    /\ \E j \in 0 .. Len(audio_segments) - 1 :
         audio_segments[j + 1].text # <<>> /\ strip(audio_segments[j + 1].text) = <<>>
    /\ Indexes # {}

\* C6 as stated: after every processed (not skipped) segment whose 1-based
\* position is a multiple of 3 a rate-limit pause occurs before the next
\* segment starts, whatever the outcome of the segment.
Orig_C6_PauseEveryThird ==
    \A j \in 0 .. i - 1 :
        (~Trivial(audio_segments[j + 1]) /\ (j + 1) % 3 = 0) => j \in paused

\* C7: from its initialisation on and after every overlay the track is
\* total_duration long, in whole milliseconds, for any number of segments,
\* overlapping or reaching beyond total_duration; only milliseconds of the
\* track are written, each by segments already overlaid.
Thm_C7_TrackLength ==
    k >= 0 =>
        /\ WholeMs(Len(combined_audio), original_duration)
        /\ DOMAIN combined_audio = 1 .. Len(combined_audio)
        /\ \A m \in DOMAIN combined_audio :
             \A n \in 1 .. Len(combined_audio[m]) :
                \E q \in 1 .. k :
                   translated_audio_segments[q].index = combined_audio[m][n]

Wit_C7_OverlapAndBeyond ==
    /\ k = 3 /\ k = Len(translated_audio_segments)
    /\ \E m \in DOMAIN combined_audio : Len(combined_audio[m]) >= 2
    /\ \E n \in 1 .. k :
         translated_audio_segments[n].start > original_duration
    /\ \E n \in 1 .. k :
         /\ translated_audio_segments[n].start < original_duration
         /\ translated_audio_segments[n].end > original_duration

\* how often the clip of segment j was mixed into a sample
Count(j, sample) == Cardinality({n \in 1 .. Len(sample) : sample[n] = j})

\* the segment got through translation and synthesis
Survived(j) == j \in Indexes

Assembled == k >= 0 /\ k = Len(translated_audio_segments)

\* C8 as stated: once the track is assembled, every millisecond of
\* [start, end) of a surviving segment holds that segment's clip exactly
\* once, and nothing else is in the track.
Orig_C8_ExactIntervals ==
    Assembled =>
        \A j \in 0 .. Len(audio_segments) - 1 :
            LET seg == audio_segments[j + 1]
            IN  /\ Survived(j) =>
                     \A m \in ToMs(seg.start) .. ToMs(seg.end) - 1 :
                        /\ m + 1 \in DOMAIN combined_audio
                        /\ Count(j, combined_audio[m + 1]) = 1
                /\ \A m \in DOMAIN combined_audio :
                     Count(j, combined_audio[m]) > 0 =>
                        /\ Survived(j)
                        /\ ToMs(seg.start) <= m - 1
                        /\ m - 1 < ToMs(seg.end)

\* C8 amended: once the track is assembled, the clip of a surviving
\* segment is in the track exactly once, on the milliseconds from
\* int(start) to int(start) + int(end - start), as far as they lie in the
\* track; a skipped or failed segment is nowhere in the track.
Thm_C8_ClippedIntervals ==
    Assembled =>
        \A j \in 0 .. Len(audio_segments) - 1 :
            LET seg   == audio_segments[j + 1]
                first == seg.start \div SubMs
                len   == (seg.end - seg.start) \div SubMs
            IN  /\ (Trivial(seg) \/ j \in failed) => ~Survived(j)
                /\ \A m \in DOMAIN combined_audio :
                     Count(j, combined_audio[m]) =
                        IF Survived(j) /\ first <= m - 1 /\ m - 1 < first + len
                        THEN 1 ELSE 0
                /\ \A m \in DOMAIN combined_audio :
                     Count(j, combined_audio[m]) > 0 =>
                        /\ seg.start < (m - 1) * SubMs + SubMs
                        /\ (m - 1) * SubMs < seg.end

Wit_C8_CutAndFailed ==
    /\ pc = "Done"
    /\ failed # {}
    /\ \E j \in Indexes :
         /\ ToMs(audio_segments[j + 1].end) > Len(combined_audio)
         /\ Count(j, combined_audio[Len(combined_audio)]) = 1

\* C9: the run reaches Done and offers the output only with at least one
\* transcript segment, at least one translated segment and a remux that
\* exited with 0 and left the output file; with zero segments, no
\* translated segment or a failed remux it never gets past the failing
\* stage, and every Failed state has an error reported.
Thm_C9_StageFatal ==
    /\ pc = "Done" =>
         /\ segments # <<>>
         /\ translated_audio_segments # <<>>
         /\ remux.exit = 0 /\ remux.exists
    /\ offered => pc = "Done"
    /\ pc = "Failed" => reported # "none"
    /\ (remux # NoRemux /\ ~(remux.exit = 0 /\ remux.exists)) =>
         pc = "Failed" /\ reported = "video_failed" /\ ~offered
    /\ (segments = <<>> \/ translated_audio_segments = <<>>) =>
         pc \notin {"Assembling", "Remuxing", "Done"}
    /\ (pc = "Failed" /\ reported = "no_segments") =>
         translated_audio_segments = <<>>

Wit_C9_RemuxFailed ==
    /\ pc = "Failed" /\ remux.exit = 1 /\ reported = "video_failed"
    /\ translated_audio_segments # <<>>

\* C10: a failure of synthesis or clip conversion of one segment is caught:
\* the function never raises, it returns only after every segment was
\* handled, and the returned list holds exactly the non-trivial segments
\* that did not fail, in order.
Thm_C10_Degrade ==
    /\ pc \in {"Translating", "Translated"}
    /\ failed \cap Indexes = {}
    /\ pc = "Translated" =>
         /\ i = Len(audio_segments)
         /\ \A j \in 0 .. Len(audio_segments) - 1 :
              ~Trivial(audio_segments[j + 1]) =>
                 /\ j \in synthCalled
                 /\ j \in Indexes <=> j \notin failed
    /\ \A n \in 1 .. Len(translated_audio_segments) - 1 :
         translated_audio_segments[n].index
            < translated_audio_segments[n + 1].index

Wit_C10_LaterSegmentKept ==
    /\ pc = "Translated"
    /\ 0 \in failed
    /\ match.band = "tts_error"
    /\ \E j \in Indexes : j >= 1

\* the source audio has been loaded and sliced
Extracted == full_audio >= 0

\* C11 as stated: of the transcript segments, those that start inside the
\* source audio are passed on with their end clamped to the source length,
\* the others are dropped; no segment passed on reaches beyond the source.
Orig_C11_DropAndClamp ==
    Extracted =>
        /\ \A n \in 1 .. Len(audio_segments) :
             /\ audio_segments[n].start < full_audio * SubMs
             /\ audio_segments[n].end <= full_audio * SubMs
        /\ \A j \in 1 .. Len(segments) :
             segments[j].start < full_audio * SubMs =>
                \E n \in 1 .. Len(audio_segments) :
                   /\ audio_segments[n].start = segments[j].start
                   /\ audio_segments[n].end
                        = Min(segments[j].end, full_audio * SubMs)

\* the step of the state machine a program position belongs to
Step(p) == IF p = "Translated" THEN "Translating" ELSE p

\* the order of the steps
Rank(p) ==
    CASE Step(p) = "Idle"         -> 0
      [] Step(p) = "Transcribing" -> 1
      [] Step(p) = "Extracting"   -> 2
      [] Step(p) = "Translating"  -> 3
      [] Step(p) = "Assembling"   -> 4
      [] Step(p) = "Remuxing"     -> 5
      [] Step(p) = "Done"         -> 6
      [] Step(p) = "Failed"       -> 7

\* what each step has completed when the run has reached position p
Completed(p) ==
    /\ Rank(p) \in 3 .. 6 => Extracted /\ audio_segments = Indexed(segments)
    /\ Rank(p) \in 4 .. 6 => i = Len(audio_segments) /\ phase = "top"
    /\ Rank(p) \in 5 .. 6 => k = Len(translated_audio_segments)
    /\ Rank(p) = 6 => remux # NoRemux

\* C12: a run moves from a step only to the next step of Transcribing,
\* Extracting, Translating, Assembling, Remuxing, Done, or to Failed; a step
\* is entered only when the step before has completed, never a second
\* time; Failed and Done are never left.
Thm_C12_StepOrder ==
    /\ [](Completed(pc))
    /\ [][Step(pc') # Step(pc) =>
            /\ Rank(pc) \in 0 .. 5
            /\ Rank(pc') = Rank(pc) + 1 \/ (Rank(pc') = 7 /\ Rank(pc) >= 1)]_vars
    /\ [][(pc = "Done" \/ pc = "Failed") => pc' = pc]_vars
    /\ [](pc = "Failed" => reported # "none")

Wit_C12_DoneAfterAllSteps ==
    /\ pc = "Done"
    /\ Len(segments) = 3
    /\ Len(translated_audio_segments) = 2
    /\ k = 2

====
